---- MODULE Spec2Model ----
(***************************************************************************)
(* codemetrics.core: the reports computed from a tabular SCM log.          *)
(*                                                                         *)
(* A table is a record [index, columns, rows]: the names of its index      *)
(* levels, the names of its ordinary columns, and its rows in order.  A    *)
(* row keeps the value of every field, whether the field is an index       *)
(* level or a column.  A report returns [ok, error, columns, rows]; the    *)
(* rows of a report whose order the code does not choose are a set.        *)
(*                                                                         *)
(* No report depends on the order of the rows of its input: a report's     *)
(* rows are a set, or a sequence the report sorts by their values.  The    *)
(* initial states therefore hold each multiset of input rows once, in one  *)
(* fixed order.                                                            *)
(*                                                                         *)
(* log, loc and paths are the arguments the caller holds, clustering what  *)
(* sklearn fits on the paths, now the last reading of the clock; called,   *)
(* args and result describe the last call.  Each call sets the arguments   *)
(* to what its statements in place leave of them.                          *)
(***************************************************************************)
EXTENDS Integers, Sequences, FiniteSets, TLC

VARIABLES log, loc, paths, clustering, now, called, args, result

vars == <<log, loc, paths, clustering, now, called, args, result>>

(***************************************************************************)
(* Bounds of the explored inputs.                                          *)
(***************************************************************************)
MaxRows == 3
MaxMinChanges == 3
MaxDate == 1
TicksPerDay == 2
MaxCode == 1
MaxCoRows == 5

Revisions == {1016, 1018}
Paths == {"requirements.txt", "setup.py", "stats.py"}
Messages == {"modified", "modified again"}
Authors == {"elmotec"}
Kinds == {"file", "dir"}

(***************************************************************************)
(* Tables.                                                                 *)
(***************************************************************************)
Range(s) == {s[i] : i \in DOMAIN s}

LogFields == <<"revision", "author", "date", "kind", "path", "message">>

\* DataFrame.set_index(['revision', 'path']): the two fields become index
\* levels and leave the columns.
SetIndex(t, levels) ==
    [index |-> levels,
     columns |-> SelectSeq(t.columns, LAMBDA c : c \notin Range(levels)),
     rows |-> t.rows]

\* DataFrame.reset_index(): the index levels become the first columns.
ResetIndex(t) ==
    [index |-> <<>>, columns |-> t.index \o t.columns, rows |-> t.rows]

\* log[[c1, c2, ...]] raises KeyError unless every name is a column.
HasColumns(t, names) == \A i \in DOMAIN names : names[i] \in Range(t.columns)

KeyError == [ok |-> FALSE, error |-> "KeyError", columns |-> <<>>, rows |-> {}]

Frame(columns, rows) ==
    [ok |-> TRUE, error |-> "", columns |-> columns, rows |-> rows]

NoResult == [ok |-> TRUE, error |-> "", columns |-> <<>>, rows |-> {}]

EmptyLoc == [index |-> <<>>, columns |-> <<"path", "code">>, rows |-> <<>>]

(***************************************************************************)
(* Statements that change an object in place.                              *)
(*                                                                         *)
(* A report binds each of its local names to an object: "new" when the     *)
(* name is assigned a frame or a list that the call builds, or the name    *)
(* of the argument when it is assigned the argument itself.  A statement   *)
(* in place is [on |-> the local name it acts on, op |-> what it does]; it  *)
(* acts on an argument when its local name is bound to the argument.       *)
(***************************************************************************)
\* df[column] = values computed from the columns `needs`: KeyError, and the
\* table as it was, when one of them is missing; else the column is added
\* or replaced.
SetItem(t, column, needs, values) ==
    IF ~HasColumns(t, needs) THEN t
    ELSE [index |-> t.index,
          columns |-> IF column \in Range(t.columns) THEN t.columns
                      ELSE Append(t.columns, column),
          rows |-> [i \in DOMAIN t.rows |->
                      [c \in DOMAIN t.rows[i] \cup {column} |->
                         IF c = column THEN values[i] ELSE t.rows[i][c]]]]

\* rename(columns={from: to}, inplace=True)
RenameInPlace(t, from, to) ==
    LET name(c) == IF c = from THEN to ELSE c
    IN IF from \notin Range(t.columns) THEN t
       ELSE [index |-> t.index,
             columns |-> [i \in DOMAIN t.columns |-> name(t.columns[i])],
             rows |-> [i \in DOMAIN t.rows |->
                         [c \in {name(d) : d \in DOMAIN t.rows[i]} |->
                            IF c = to THEN t.rows[i][from] ELSE t.rows[i][c]]]]

\* reset_index(inplace=True): the index levels become columns; a table
\* without index levels gets its row numbers as the column index.
ResetIndexInPlace(t) ==
    IF t.index # <<>> THEN ResetIndex(t)
    ELSE IF "index" \in Range(t.columns) THEN t
    ELSE [index |-> <<>>,
          columns |-> <<"index">> \o t.columns,
          rows |-> [i \in DOMAIN t.rows |->
                      [c \in DOMAIN t.rows[i] \cup {"index"} |->
                         IF c = "index" THEN i - 1 ELSE t.rows[i][c]]]]

\* drop_duplicates(inplace=True): the first of the rows that are equal.
DropDuplicatesInPlace(t) ==
    LET first == {i \in DOMAIN t.rows :
                     \A j \in DOMAIN t.rows : t.rows[j] = t.rows[i] => i <= j}
        place(i) == Cardinality({j \in first : j <= i})
    IN [index |-> t.index, columns |-> t.columns,
        rows |-> [k \in 1..Cardinality(first) |->
                    t.rows[CHOOSE i \in first : place(i) = k]]]

\* guess_components before any fit: no stop words, no cluster.
NoClustering ==
    [stop_words |-> {}, n_clusters |-> 0, centers |-> <<>>, labels |-> <<>>]

(***************************************************************************)
(* get_mass_changesets                                                     *)
(***************************************************************************)
\* groupby('revision').count(): the number of rows of the revision.
PathCount(rows, r) == Cardinality({i \in DOMAIN rows : rows[i].revision = r})

\* a threshold that also keeps a revision with exactly min_changes rows.
MassKeepAtLeast(path_count, min_changes) == path_count >= min_changes

\* the comparison that keeps a revision of by_rev.
MassKeepStrictly(path_count, min_changes) == path_count > min_changes

\* the filtered counts returned as they are, not merged with the log.
get_mass_changesets_unmerged(t, min_changes) ==
    IF ~HasColumns(t, <<"revision", "path">>) THEN KeyError
    ELSE
      LET by_rev == {[revision |-> r, path_count |-> PathCount(t.rows, r)] :
                        r \in {t.rows[i].revision : i \in DOMAIN t.rows}}
          kept == {b \in by_rev : MassKeepStrictly(b.path_count, min_changes)}
      IN Frame(<<"revision", "path_count">>, kept)

get_mass_changesets(t, min_changes) ==
    IF ~HasColumns(t, <<"revision", "path">>) THEN KeyError
    ELSE IF ~HasColumns(t, <<"revision", "message", "author">>) THEN KeyError
    ELSE
      LET by_rev == {[revision |-> r, path_count |-> PathCount(t.rows, r)] :
                        r \in {t.rows[i].revision : i \in DOMAIN t.rows}}
          kept == {b \in by_rev : MassKeepStrictly(b.path_count, min_changes)}
          meta == {[revision |-> t.rows[i].revision,
                    message |-> t.rows[i].message,
                    author |-> t.rows[i].author] : i \in DOMAIN t.rows}
          massive == UNION {{[revision |-> b.revision,
                               path_count |-> b.path_count,
                               message |-> m.message, author |-> m.author] :
                                 m \in {x \in meta : x.revision = b.revision}} :
                                   b \in kept}
      IN Frame(<<"revision", "path_count", "message", "author">>, massive)

(***************************************************************************)
(* Inputs.                                                                 *)
(***************************************************************************)
RECURSIVE SetToSeq(_)
SetToSeq(S) ==
    IF S = {} THEN <<>>
    ELSE LET x == CHOOSE y \in S : TRUE IN <<x>> \o SetToSeq(S \ {x})

\* the tables of at most n rows drawn from S, duplicates included, each
\* multiset of rows in one order.
RowLists(S, n) ==
    LET e == SetToSeq(S)
    IN UNION {{[i \in 1..k |-> e[s[i]]] :
                 s \in {t \in [1..k -> 1..Len(e)] :
                           \A i \in 1..(k - 1) : t[i] <= t[i + 1]}} :
                   k \in 0..n}

LogTable(rows) == [index |-> <<>>, columns |-> LogFields, rows |-> rows]

\* the log with the extra column day, as the callers of hot_spots and
\* co_changes add it.
LogTableWithDay(rows) ==
    [index |-> <<>>, columns |-> LogFields \o <<"day">>, rows |-> rows]

\* a log as the SCM adapter yields it, or the same log after
\* set_index(['revision', 'path']).
LogForms(rows) ==
    {LogTable(rows), SetIndex(LogTable(rows), <<"revision", "path">>)}

\* by_rev is the frame groupby('revision').count() builds, massive the frame
\* pd.merge builds.
MassBindings == [by_rev |-> "new", massive |-> "new"]

MassStatements ==
    <<[on |-> "by_rev", op |-> "rename"], [on |-> "by_rev", op |-> "reset_index"]>>

\* the table of an argument after the statements in place of one call.
MassAfter(argument, t) ==
    LET acts(k) == MassBindings[MassStatements[k].on] = argument
        renamed == IF acts(1) THEN RenameInPlace(t, "path", "path_count") ELSE t
    IN IF acts(2) THEN ResetIndexInPlace(renamed) ELSE renamed

MassRows ==
    [revision : Revisions, author : Authors, date : {0}, kind : {"file"},
     path : Paths, message : Messages]

InitMass ==
    /\ log \in UNION {LogForms(rows) : rows \in RowLists(MassRows, MaxRows)}
    /\ loc = EmptyLoc
    /\ paths = <<>>
    /\ clustering = NoClustering
    /\ now = 0
    /\ called = "none"
    /\ args = [min_changes |-> 0]
    /\ result = NoResult

GetMassChangesets(min_changes) ==
    /\ called' = "get_mass_changesets"
    /\ args' = [min_changes |-> min_changes]
    /\ result' = get_mass_changesets(log, min_changes)
    /\ log' = MassAfter("log", log)
    /\ UNCHANGED <<loc, paths, clustering, now>>

NextMass == \E min_changes \in 0..MaxMinChanges : GetMassChangesets(min_changes)

SpecMass == InitMass /\ [][NextMass]_vars

\* the number of rows of the log that carry revision r.
RowsOfRevision(r) ==
    Cardinality({i \in DOMAIN log.rows : log.rows[i].revision = r})

C10_NoMassChangesEmptyTable ==
    (/\ called = "get_mass_changesets"
     /\ log.index = <<>>
     /\ \A r \in Revisions : RowsOfRevision(r) <= args.min_changes) =>
        /\ result.ok
        /\ result.rows = {}
        /\ Len(result.columns) = 4
        /\ Range(result.columns) =
               {"revision", "path_count", "message", "author"}

C10_Witness ==
    /\ called = "get_mass_changesets"
    /\ log.index = <<>>
    /\ Len(log.rows) >= 2
    /\ \A r \in Revisions : RowsOfRevision(r) <= args.min_changes
    /\ result.ok
    /\ result.rows = {}

C10_WitnessEmptyLog ==
    /\ called = "get_mass_changesets"
    /\ log.index = <<>>
    /\ log.rows = <<>>
    /\ result.ok

(***************************************************************************)
(* ages                                                                    *)
(***************************************************************************)
Abs(n) == IF n < 0 THEN -n ELSE n

RECURSIVE Gcd(_, _)
Gcd(a, b) == IF b = 0 THEN a ELSE Gcd(b, a % b)

\* a Timedelta divided by pd.Timedelta(1, unit='D'): a number of days, kept
\* as a fraction in lowest terms.
Days(delta) ==
    LET g == Gcd(Abs(delta), TicksPerDay)
    IN [num |-> delta \div g, den |-> TicksPerDay \div g]

Excluded ==
    {"revision", "author", "date", "textmods", "action", "propmods", "message"}

None == [none |-> TRUE, names |-> <<>>]
Keys(names) == [none |-> FALSE, names |-> names]

\* keys = [col for col in log.columns if col not in excluded]
DefaultKeys(t) == SelectSeq(t.columns, LAMBDA c : c \notin Excluded)

\* the values of one row in the key columns.
KeyOf(row, names) == [k \in Range(names) |-> row[k]]

Max(S) == CHOOSE x \in S : \A y \in S : y <= x

\* the earliest date of the group in place of the latest.
GroupDateEarliest(dates) == CHOOSE x \in dates : \A y \in dates : x <= y

\* groupby(keys).max(): the aggregate of the date column of one group.
GroupDate(dates) == Max(dates)

ValueError ==
    [ok |-> FALSE, error |-> "ValueError", columns |-> <<>>, rows |-> {}]

ages(t, keys, clock) ==
    LET names == IF keys.none THEN DefaultKeys(t) ELSE keys.names
    IN IF ~HasColumns(t, names \o <<"date">>) THEN KeyError
       ELSE IF names = <<>> THEN ValueError
       ELSE
         LET groups == {KeyOf(t.rows[i], names) : i \in DOMAIN t.rows}
             date(g) == GroupDate({t.rows[i].date :
                           i \in {j \in DOMAIN t.rows :
                                     KeyOf(t.rows[j], names) = g}})
             rv == {[c \in Range(names) \cup {"age"} |->
                       IF c = "age" THEN Days(clock - date(g)) ELSE g[c]] :
                         g \in groups}
         IN Frame(names \o <<"age">>, rv)

\* rv bound to the log itself: the age column is written into the log.
AgesBindingsOfLog == [rv |-> "log"]

\* rv is the frame groupby(keys).max().reset_index() builds.
AgesBindings == [rv |-> "new"]

AgesStatements ==
    <<[on |-> "rv", op |-> "setitem"], [on |-> "rv", op |-> "itruediv"]>>

\* the table of an argument after rv['age'] = now - rv['date'] and
\* rv['age'] /= pd.Timedelta(1, unit='D').
AgesAfter(argument, t, clock) ==
    LET acts(k) == AgesBindings[AgesStatements[k].on] = argument
        set == IF acts(1)
               THEN SetItem(t, "age", <<"date">>,
                            [i \in DOMAIN t.rows |-> clock - t.rows[i].date])
               ELSE t
    IN IF acts(2)
       THEN SetItem(set, "age", <<"age">>,
                    [i \in DOMAIN set.rows |-> Days(set.rows[i].age)])
       ELSE set

AgesRows ==
    [revision : {1016}, author : Authors, date : 0..MaxDate, kind : Kinds,
     path : Paths, message : {"modified"}]

InitAges ==
    /\ log \in UNION {LogForms(rows) : rows \in RowLists(AgesRows, MaxRows)}
    /\ loc = EmptyLoc
    /\ paths = <<>>
    /\ clustering = NoClustering
    /\ now = 0
    /\ called = "none"
    /\ args = [keys |-> None]
    /\ result = NoResult

KeyChoices == {None, Keys(<<"path">>), Keys(<<"kind">>)}

\* internals.get_now(): the reading of the clock when ages runs.
Clock == {MaxDate, MaxDate + TicksPerDay + 1}

Ages(keys, clock) ==
    /\ called' = "ages"
    /\ args' = [keys |-> keys]
    /\ now' = clock
    /\ result' = ages(log, keys, clock)
    /\ log' = AgesAfter("log", log, clock)
    /\ UNCHANGED <<loc, paths, clustering>>

NextAges == \E keys \in KeyChoices, clock \in Clock : Ages(keys, clock)

SpecAges == InitAges /\ [][NextAges]_vars

\* the key columns of the last call of ages.
AgesKeys == IF args.keys.none THEN DefaultKeys(log) ELSE args.keys.names

\* the log rows that hold, in the columns ks, the values row g holds there.
RowsOfGroup(g, ks) ==
    {i \in DOMAIN log.rows : \A k \in ks : log.rows[i][k] = g[k]}

NaN == [num |-> 0, den |-> 0]

Sign(n) == IF n < 0 THEN -1 ELSE IF n > 0 THEN 1 ELSE 0

Norm(n, d) ==
    LET g == Gcd(Abs(n), Abs(d))
    IN [num |-> Sign(d) * (n \div g), den |-> Abs(d) \div g]

\* astype('float')
Float(n) == [num |-> n, den |-> 1]

IsNaN(x) == x.den = 0 /\ x.num = 0
IsFinite(x) == x.den > 0

FSub(a, b) ==
    IF IsFinite(a) /\ IsFinite(b)
    THEN Norm(a.num * b.den - b.num * a.den, a.den * b.den)
    ELSE NaN

FAdd(a, b) ==
    IF IsFinite(a) /\ IsFinite(b)
    THEN Norm(a.num * b.den + b.num * a.den, a.den * b.den)
    ELSE NaN

FMul(a, b) ==
    IF IsFinite(a) /\ IsFinite(b) THEN Norm(a.num * b.num, a.den * b.den)
    ELSE IF IsNaN(a) \/ IsNaN(b) THEN NaN
    ELSE [num |-> Sign(a.num) * Sign(b.num), den |-> 0]

\* x / 0 is an infinity and 0 / 0 is NaN.
FDiv(a, b) ==
    IF ~(IsFinite(a) /\ IsFinite(b)) THEN NaN
    ELSE IF b.num = 0 THEN [num |-> Sign(a.num), den |-> 0]
    ELSE Norm(a.num * b.den, a.den * b.num)

FLeq(a, b) == a.num * b.den <= b.num * a.den

\* a fill that leaves NaN in place.
FillNaSkipped(x) == x

\* fillna(0.0) of one cell.
FillNa(x) == IF IsNaN(x) THEN Float(0) ELSE x

\* min(axis=0) and max(axis=0) of a column skip NaN; NaN for no value.
ColMin(col) ==
    LET vals == {col[i] : i \in {j \in DOMAIN col : ~IsNaN(col[j])}}
    IN IF vals = {} THEN NaN
       ELSE CHOOSE x \in vals : \A y \in vals : FLeq(x, y)

ColMax(col) ==
    LET vals == {col[i] : i \in {j \in DOMAIN col : ~IsNaN(col[j])}}
    IN IF vals = {} THEN NaN
       ELSE CHOOSE x \in vals : \A y \in vals : FLeq(y, x)

\* a scaling that divides by the maximum without subtracting the minimum.
ScoreColumnUnshifted(col) ==
    LET filled == [i \in DOMAIN col |-> FillNa(col[i])]
        hi == ColMax(filled)
        scaled == [i \in DOMAIN col |-> FDiv(filled[i], hi)]
        refilled == [i \in DOMAIN col |-> FillNa(scaled[i])]
    IN [i \in DOMAIN col |-> FMul(refilled[i], refilled[i])]

\* compute_score on one column of input_df.
ScoreColumn(col) ==
    LET filled == [i \in DOMAIN col |-> FillNa(col[i])]
        lo == ColMin(filled)
        shifted == [i \in DOMAIN col |-> FSub(filled[i], lo)]
        hi == ColMax(shifted)
        scaled == [i \in DOMAIN col |-> FDiv(shifted[i], hi)]
        refilled == [i \in DOMAIN col |-> FillNa(scaled[i])]
    IN [i \in DOMAIN col |-> FMul(refilled[i], refilled[i])]

\* columns={'code': 'complexity'}
RenameCode(c) == IF c = "code" THEN "complexity" ELSE c

\* a count of the log rows of a by value, duplicates of the selected columns
\* included.
ValueCountsOfRows(rows, columns, v, by) ==
    Cardinality({j \in DOMAIN rows : rows[j][by] = v})

\* log[columns].drop_duplicates()[by].value_counts(): for a by value, the
\* number of distinct rows of the selected columns that carry it.
ValueCounts(rows, columns, v, by) ==
    Cardinality({KeyOf(rows[i], columns) :
                    i \in {j \in DOMAIN rows : rows[j][by] = v}})

hot_spots(t, size, by_arg, per_arg) ==
    LET by == IF by_arg.none THEN "path" ELSE by_arg.names[1]
        count_one_change_per ==
            IF per_arg.none THEN <<"revision">> ELSE per_arg.names
        columns == count_one_change_per \o <<by>>
    IN IF ~HasColumns(t, columns) THEN KeyError
       ELSE IF ~HasColumns(size, <<by, "code">>) THEN KeyError
       ELSE
         LET c_cols == [i \in DOMAIN size.columns |->
                          RenameCode(size.columns[i])]
             changed == {t.rows[i][by] : i \in DOMAIN t.rows}
             sized == {size.rows[i][by] : i \in DOMAIN size.rows}
             only_log == SetToSeq(changed \ sized)
             \* the outer merge, NaN where a side has no row.
             left == [i \in DOMAIN size.rows |->
                        [c \in Range(c_cols) \cup {"changes"} |->
                           IF c = "changes"
                           THEN IF size.rows[i][by] \in changed
                                THEN Float(ValueCounts(t.rows, columns,
                                                       size.rows[i][by], by))
                                ELSE NaN
                           ELSE IF c = "complexity"
                                THEN Float(size.rows[i].code)
                                ELSE size.rows[i][c]]]
             right == [i \in DOMAIN only_log |->
                         [c \in Range(c_cols) \cup {"changes"} |->
                            IF c = "changes"
                            THEN Float(ValueCounts(t.rows, columns,
                                                   only_log[i], by))
                            ELSE IF c = by THEN only_log[i]
                            ELSE NaN]]
             merged == left \o right
             \* .fillna(0.0) of the merge
             df == [i \in DOMAIN merged |->
                      [c \in DOMAIN merged[i] |->
                         IF c = by THEN merged[i][c] ELSE FillNa(merged[i][c])]]
             complexity_score ==
                 ScoreColumn([i \in DOMAIN df |-> df[i].complexity])
             changes_score == ScoreColumn([i \in DOMAIN df |-> df[i].changes])
             scored == [i \in DOMAIN df |->
                          [c \in DOMAIN df[i] \cup
                                  {"complexity_score", "changes_score", "score"} |->
                             IF c = "complexity_score" THEN complexity_score[i]
                             ELSE IF c = "changes_score" THEN changes_score[i]
                             ELSE IF c = "score"
                                  THEN FAdd(complexity_score[i], changes_score[i])
                             ELSE df[i][c]]]
         IN Frame(c_cols \o <<"changes", "complexity_score", "changes_score",
                              "score">>,
                  Range(scored))

\* c_df is loc.copy() and then the frame rename builds, ch_df the frame
\* to_frame builds, df the frame fillna builds from the merge; in
\* compute_score input_df is the frame df[['complexity', 'changes']] builds
\* and its df the frame astype('float').copy() builds.
HotSpotsBindings ==
    [c_df |-> "new", ch_df |-> "new", df |-> "new", input_df |-> "new",
     compute_score_df |-> "new"]

HotSpotsStatements ==
    <<[on |-> "compute_score_df", op |-> "fillna"],
      [on |-> "compute_score_df", op |-> "isub"],
      [on |-> "compute_score_df", op |-> "itruediv"],
      [on |-> "compute_score_df", op |-> "fillna"],
      [on |-> "df", op |-> "setitem_scores"],
      [on |-> "df", op |-> "setitem_score"]>>

\* df -= df.min(axis=0) and df /= df.max(axis=0) raise TypeError, and leave
\* the table as it was, unless every column is a column of floats.
IsFloatFrame(t) == Range(t.columns) \subseteq {"complexity", "changes"}

\* fillna(0.0, inplace=True)
FillNaInPlace(t) ==
    IF ~IsFloatFrame(t) THEN t
    ELSE [index |-> t.index, columns |-> t.columns,
          rows |-> [i \in DOMAIN t.rows |->
                      [c \in DOMAIN t.rows[i] |-> FillNa(t.rows[i][c])]]]

\* df -= df.min(axis=0)
SubtractMinInPlace(t) ==
    IF ~IsFloatFrame(t) THEN t
    ELSE [index |-> t.index, columns |-> t.columns,
          rows |-> [i \in DOMAIN t.rows |->
                      [c \in DOMAIN t.rows[i] |->
                         FSub(t.rows[i][c],
                              ColMin([j \in DOMAIN t.rows |-> t.rows[j][c]]))]]]

\* df /= df.max(axis=0)
DivideByMaxInPlace(t) ==
    IF ~IsFloatFrame(t) THEN t
    ELSE [index |-> t.index, columns |-> t.columns,
          rows |-> [i \in DOMAIN t.rows |->
                      [c \in DOMAIN t.rows[i] |->
                         FDiv(t.rows[i][c],
                              ColMax([j \in DOMAIN t.rows |-> t.rows[j][c]]))]]]

\* the table of an argument after the statements in place of one call.
HotSpotsAfter(argument, t) ==
    LET acts(k) == HotSpotsBindings[HotSpotsStatements[k].on] = argument
        t1 == IF acts(1) THEN FillNaInPlace(t) ELSE t
        t2 == IF acts(2) THEN SubtractMinInPlace(t1) ELSE t1
        t3 == IF acts(3) THEN DivideByMaxInPlace(t2) ELSE t2
        t4 == IF acts(4) THEN FillNaInPlace(t3) ELSE t3
        needs == <<"complexity", "changes">>
        t5 == IF acts(5)
              THEN SetItem(
                     SetItem(t4, "complexity_score", needs,
                             ScoreColumn([i \in DOMAIN t4.rows |->
                                            t4.rows[i].complexity])),
                     "changes_score", needs,
                     ScoreColumn([i \in DOMAIN t4.rows |-> t4.rows[i].changes]))
              ELSE t4
    IN IF acts(6)
       THEN SetItem(t5, "score", <<"complexity_score", "changes_score">>,
                    [i \in DOMAIN t5.rows |->
                       FAdd(t5.rows[i].complexity_score,
                            t5.rows[i].changes_score)])
       ELSE t5

\* the day of the commit of each revision: the days of the fixture, or one
\* day for every revision.
DayMaps ==
    {[r \in Revisions |-> IF r = 1016 THEN 26 ELSE 24],
     [r \in Revisions |-> 24]}

RowsWithDay(day) ==
    {[revision |-> r, author |-> "elmotec", date |-> 0, kind |-> "file",
      path |-> p, message |-> "modified", day |-> day[r]] :
        r \in Revisions, p \in Paths}

Codes == 0..MaxCode

\* the size tables: at most one row per path.
LocTables ==
    {LET ps == SetToSeq({p \in Paths : code[p] >= 0})
     IN [index |-> <<>>, columns |-> <<"path", "code">>,
         rows |-> [i \in DOMAIN ps |-> [path |-> ps[i], code |-> code[ps[i]]]]] :
       code \in [Paths -> Codes \cup {-1}]}

InitHotSpots ==
    /\ \E day \in DayMaps :
          log \in {LogTableWithDay(rows) :
                     rows \in RowLists(RowsWithDay(day), MaxRows)}
    /\ loc \in LocTables
    /\ paths = <<>>
    /\ clustering = NoClustering
    /\ now = 0
    /\ called = "none"
    /\ args = [by |-> None, count_one_change_per |-> None]
    /\ result = NoResult

HotSpots(by, count_one_change_per) ==
    /\ called' = "hot_spots"
    /\ args' = [by |-> by, count_one_change_per |-> count_one_change_per]
    /\ result' = hot_spots(log, loc, by, count_one_change_per)
    /\ log' = HotSpotsAfter("log", log)
    /\ loc' = HotSpotsAfter("loc", loc)
    /\ UNCHANGED <<paths, clustering, now>>

PerChoices == {None, Keys(<<"day">>)}

NextHotSpots == \E per \in PerChoices : HotSpots(None, per)

SpecHotSpots == InitHotSpots /\ [][NextHotSpots]_vars

InUnit(x) == x.den > 0 /\ 0 <= x.num /\ x.num <= x.den

IsZero(x) == x.den > 0 /\ x.num = 0
IsOne(x) == x.den > 0 /\ x.num = x.den

\* C4: every row of the hot_spots output has complexity_score and
\* changes_score in [0, 1] and score = complexity_score + changes_score,
\* hence in [0, 2].
C4_HotSpotScoreBounds ==
    called = "hot_spots" =>
        /\ result.ok
        /\ \A h \in result.rows :
               /\ InUnit(h.complexity_score)
               /\ InUnit(h.changes_score)
               /\ h.score.den > 0
               /\ h.score.num * h.complexity_score.den * h.changes_score.den =
                      h.score.den *
                        (h.complexity_score.num * h.changes_score.den
                           + h.changes_score.num * h.complexity_score.den)
               /\ 0 <= h.score.num
               /\ h.score.num <= 2 * h.score.den

C4_Witness ==
    /\ called = "hot_spots"
    /\ Cardinality(result.rows) = 3
    /\ \E h \in result.rows : h.score.num = 2 * h.score.den
    /\ \E h \in result.rows :
           0 < h.changes_score.num /\ h.changes_score.num < h.changes_score.den
    /\ \E h \in result.rows : IsZero(h.score)

\* a constant column (a single row included) scores 0 for every path.
C4_WitnessConstantColumn ==
    /\ called = "hot_spots"
    /\ Cardinality(result.rows) >= 2
    /\ \A g, h \in result.rows : g.complexity = h.complexity
    /\ \E h \in result.rows : h.complexity.num > 0
    /\ \A h \in result.rows : IsZero(h.complexity_score)

\* the values of the complexity and of the changes column of the output.
ComplexityColumn == {h.complexity : h \in result.rows}
ChangesColumn == {h.changes : h \in result.rows}

Lowest(x, column) == \A y \in column : FLeq(x, y)
Highest(x, column) == \A y \in column : FLeq(y, x)

\* C5: in each metric column of the hot_spots output a path holding the
\* minimum of the column scores 0 on the metric and a path holding the
\* maximum scores 1.
C5_MinScoresZeroMaxScoresOne ==
    called = "hot_spots" =>
        \A h \in result.rows :
           /\ Lowest(h.complexity, ComplexityColumn) =>
                  IsZero(h.complexity_score)
           /\ Highest(h.complexity, ComplexityColumn) =>
                  IsOne(h.complexity_score)
           /\ Lowest(h.changes, ChangesColumn) => IsZero(h.changes_score)
           /\ Highest(h.changes, ChangesColumn) => IsOne(h.changes_score)

\* C5 as amended: a path holding the minimum of a metric column scores 0 on
\* the metric; a path holding the maximum scores 1 when the column holds
\* two different values, and 0 when every value of the column is the same.
C5_MinScoresZeroMaxScoresOneUnlessConstant ==
    called = "hot_spots" =>
        \A h \in result.rows :
           /\ Lowest(h.complexity, ComplexityColumn) =>
                  IsZero(h.complexity_score)
           /\ Highest(h.complexity, ComplexityColumn) =>
                  IF Cardinality(ComplexityColumn) > 1
                  THEN IsOne(h.complexity_score)
                  ELSE IsZero(h.complexity_score)
           /\ Lowest(h.changes, ChangesColumn) => IsZero(h.changes_score)
           /\ Highest(h.changes, ChangesColumn) =>
                  IF Cardinality(ChangesColumn) > 1
                  THEN IsOne(h.changes_score)
                  ELSE IsZero(h.changes_score)

C5_Witness ==
    /\ called = "hot_spots"
    /\ Cardinality(ChangesColumn) = 2
    /\ \A x \in ChangesColumn : x.num > 0
    /\ \E h \in result.rows : IsOne(h.changes_score)
    /\ \E h \in result.rows : IsZero(h.changes_score)
    /\ Cardinality(ComplexityColumn) = 1
    /\ \A h \in result.rows : IsZero(h.complexity_score)

\* the by column and the columns that make one change, in the last call of
\* hot_spots.
HotBy == IF args.by.none THEN "path" ELSE args.by.names[1]
HotPer ==
    IF args.count_one_change_per.none THEN <<"revision">>
    ELSE args.count_one_change_per.names

\* the number of distinct combinations of the HotPer columns among the log
\* rows of by value v.
ChangesOf(v) ==
    Cardinality({[k \in Range(HotPer) |-> log.rows[i][k]] :
                    i \in {j \in DOMAIN log.rows : log.rows[j][HotBy] = v}})

InLog(v) == \E i \in DOMAIN log.rows : log.rows[i][HotBy] = v
InLoc(v) == \E i \in DOMAIN loc.rows : loc.rows[i][HotBy] = v

\* C6: the hot_spots output has a row for every by value of the size table
\* or of the log; its changes is the number of distinct combinations of the
\* count_one_change_per columns among the log rows of that value, 0 when the
\* value is not in the log, and its complexity is 0 when the value is not in
\* the size table.
C6_HotSpotRowsAndChanges ==
    called = "hot_spots" =>
        /\ result.ok
        /\ \A v \in Paths :
               (InLog(v) \/ InLoc(v)) => \E h \in result.rows : h[HotBy] = v
        /\ \A h \in result.rows :
               /\ InLog(h[HotBy]) \/ InLoc(h[HotBy])
               /\ h.changes = Float(ChangesOf(h[HotBy]))
               /\ ~InLog(h[HotBy]) => IsZero(h.changes)
               /\ ~InLoc(h[HotBy]) => IsZero(h.complexity)
               /\ \A i \in DOMAIN loc.rows :
                      loc.rows[i][HotBy] = h[HotBy] =>
                          h.complexity = Float(loc.rows[i].code)

C6_Witness ==
    /\ called = "hot_spots"
    /\ ~args.count_one_change_per.none
    /\ \E h \in result.rows :
           /\ h.changes = Float(1)
           /\ \E i, j \in DOMAIN log.rows :
                  /\ log.rows[i][HotBy] = h[HotBy]
                  /\ log.rows[j][HotBy] = h[HotBy]
                  /\ log.rows[i].revision # log.rows[j].revision
    /\ \E h \in result.rows : ~InLog(h[HotBy]) /\ IsZero(h.changes)
    /\ \E h \in result.rows : ~InLoc(h[HotBy]) /\ IsZero(h.complexity)

(***************************************************************************)
(* co_changes                                                              *)
(***************************************************************************)
\* the order in which groupby sorts the by values.
SortedValues == <<"requirements.txt", "setup.py", "stats.py">>

\* the position of a by value in that order.
Rank(v) == CHOOSE i \in DOMAIN SortedValues : SortedValues[i] = v

\* a drop_duplicates that compares the by column alone: the first row of
\* each by value.
DropDuplicatesOfBy(rows, on, by) ==
    {<<rows[i][on], rows[i][by]>> :
        i \in {j \in DOMAIN rows :
                  \A k \in DOMAIN rows : rows[k][by] = rows[j][by] => j <= k}}

\* drop_duplicates(): one <<unit, value>> per distinct (on, by) row.
DropDuplicates(rows, on, by) == {<<rows[i][on], rows[i][by]>> : i \in DOMAIN rows}

\* the ratio taken upside down.
CouplingInverted(cochanges, changes) == FDiv(Float(changes), Float(cochanges))

\* result['coupling'] = cochanges / changes
Coupling(cochanges, changes) == FDiv(Float(cochanges), Float(changes))

\* a selection of the pairs that keeps one direction of each.
IsUpperPair(primary, secondary) == Rank(primary) < Rank(secondary)

\* sj['primary'] != sj['secondary']
IsOtherPair(primary, secondary) == primary # secondary

\* sort_values(by='coupling', ascending=False): descending, rows of equal
\* coupling in the order they had.
SortByCouplingDescending(rows) ==
    LET before(i, j) ==
            \/ ~FLeq(rows[i].coupling, rows[j].coupling)
            \/ /\ rows[i].coupling = rows[j].coupling
               /\ i < j
        place(i) == 1 + Cardinality({j \in DOMAIN rows : before(j, i)})
    IN [k \in DOMAIN rows |-> rows[CHOOSE i \in DOMAIN rows : place(i) = k]]

co_changes(t, by_arg, on_arg) ==
    LET by == IF by_arg.none THEN "path" ELSE by_arg.names[1]
        on == IF on_arg.none THEN "revision" ELSE on_arg.names[1]
    IN IF ~HasColumns(t, <<on, by>>) THEN KeyError
       ELSE
         LET df == DropDuplicates(t.rows, on, by)
             \* the self merge on `on`, renamed, duplicates dropped.
             sj == {<<x[1], x[2], y[2]>> :
                      <<x, y>> \in {p \in df \X df : p[1][1] = p[2][1]}}
             \* groupby(['primary', 'secondary']).count()
             count(a, b) == Cardinality({j \in sj : j[2] = a /\ j[3] = b})
             pairs == SelectSeq(
                        [k \in 1..(Len(SortedValues) * Len(SortedValues)) |->
                           <<SortedValues[((k - 1) \div Len(SortedValues)) + 1],
                             SortedValues[((k - 1) % Len(SortedValues)) + 1]>>],
                        LAMBDA p : /\ IsOtherPair(p[1], p[2])
                                   /\ count(p[1], p[2]) > 0
                                   /\ count(p[1], p[1]) > 0)
             merged == [k \in DOMAIN pairs |->
                          [c \in {"primary", "secondary", on \o "_cochanges",
                                  on \o "_changes", "coupling"} |->
                             IF c = "primary" THEN pairs[k][1]
                             ELSE IF c = "secondary" THEN pairs[k][2]
                             ELSE IF c = on \o "_cochanges"
                                  THEN count(pairs[k][1], pairs[k][2])
                             ELSE IF c = on \o "_changes"
                                  THEN count(pairs[k][1], pairs[k][1])
                             ELSE Coupling(count(pairs[k][1], pairs[k][2]),
                                           count(pairs[k][1], pairs[k][1]))]]
         IN Frame(<<"primary", "secondary", on \o "_cochanges",
                    on \o "_changes", "coupling">>,
                  SortByCouplingDescending(merged))

\* df is the frame drop_duplicates() builds, sj and result the frames
\* pd.merge builds.
CoChangesBindings == [df |-> "new", sj |-> "new", result |-> "new"]

CoChangesStatements ==
    <<[on |-> "sj", op |-> "drop_duplicates"], [on |-> "result", op |-> "setitem"]>>

\* the table of an argument after sj.drop_duplicates(inplace=True) and
\* result['coupling'] = ...
CoChangesAfter(argument, t, on) ==
    LET acts(k) == CoChangesBindings[CoChangesStatements[k].on] = argument
        dropped == IF acts(1) THEN DropDuplicatesInPlace(t) ELSE t
    IN IF acts(2)
       THEN SetItem(dropped, "coupling", <<on \o "_cochanges", on \o "_changes">>,
                    [i \in DOMAIN dropped.rows |->
                       Coupling(dropped.rows[i][on \o "_cochanges"],
                                dropped.rows[i][on \o "_changes"])])
       ELSE dropped

InitCoChanges ==
    /\ \E day \in DayMaps :
          log \in {LogTableWithDay(rows) :
                     rows \in RowLists(RowsWithDay(day), MaxCoRows)}
    /\ loc = EmptyLoc
    /\ paths = <<>>
    /\ clustering = NoClustering
    /\ now = 0
    /\ called = "none"
    /\ args = [by |-> None, on |-> None]
    /\ result = NoResult

CoChanges(by, on) ==
    /\ called' = "co_changes"
    /\ args' = [by |-> by, on |-> on]
    /\ result' = co_changes(log, by, on)
    /\ log' = CoChangesAfter("log", log,
                             IF on.none THEN "revision" ELSE on.names[1])
    /\ UNCHANGED <<loc, paths, clustering, now>>

OnChoices == {None, Keys(<<"day">>)}

NextCoChanges == \E on \in OnChoices : CoChanges(None, on)

SpecCoChanges == InitCoChanges /\ [][NextCoChanges]_vars

\* the columns of the last call of co_changes.
CoBy == IF args.by.none THEN "path" ELSE args.by.names[1]
CoOn == IF args.on.none THEN "revision" ELSE args.on.names[1]

\* the units of the log that contain by value v.
UnitsOf(v) ==
    {log.rows[i][CoOn] : i \in {j \in DOMAIN log.rows : log.rows[j][CoBy] = v}}

\* C7: co_changes outputs one row (A, B) exactly for the ordered pairs of
\* different by values that share a unit; its cochanges is the number of
\* distinct units containing both, its changes the number of distinct units
\* containing A, its coupling their ratio; duplicate rows of the log do not
\* count.
C7_CoChangeRowsAndCounts ==
    called = "co_changes" =>
        /\ result.ok
        /\ \A A, B \in Paths :
               (A # B /\ UnitsOf(A) \cap UnitsOf(B) # {}) <=>
                   \E k \in DOMAIN result.rows :
                      /\ result.rows[k].primary = A
                      /\ result.rows[k].secondary = B
        /\ \A k, m \in DOMAIN result.rows :
               (/\ result.rows[k].primary = result.rows[m].primary
                /\ result.rows[k].secondary = result.rows[m].secondary) => k = m
        /\ \A k \in DOMAIN result.rows :
               LET r == result.rows[k]
               IN /\ r.primary # r.secondary
                  /\ r[CoOn \o "_cochanges"] =
                         Cardinality(UnitsOf(r.primary) \cap UnitsOf(r.secondary))
                  /\ r[CoOn \o "_changes"] = Cardinality(UnitsOf(r.primary))
                  /\ r.coupling.den > 0
                  /\ r.coupling.num * r[CoOn \o "_changes"] =
                         r[CoOn \o "_cochanges"] * r.coupling.den

\* a log that repeats a (unit, path) row, with the counts of the scenario:
\* stats.py changed twice, once together with requirements.txt.
C7_Witness ==
    /\ called = "co_changes"
    /\ \E i, j \in DOMAIN log.rows : i # j /\ log.rows[i] = log.rows[j]
    /\ \E k \in DOMAIN result.rows :
           /\ result.rows[k][CoOn \o "_cochanges"] = 1
           /\ result.rows[k][CoOn \o "_changes"] = 2
           /\ result.rows[k].coupling = [num |-> 1, den |-> 2]

\* C8: with every row (A, B) the co_changes output holds the row (B, A),
\* and the two rows have the same cochanges.
C8_CoChangesSymmetric ==
    called = "co_changes" =>
        \A k \in DOMAIN result.rows :
           \E m \in DOMAIN result.rows :
              /\ result.rows[m].primary = result.rows[k].secondary
              /\ result.rows[m].secondary = result.rows[k].primary
              /\ result.rows[m][CoOn \o "_cochanges"] =
                     result.rows[k][CoOn \o "_cochanges"]

\* two mirrored rows whose couplings differ.
C8_Witness ==
    /\ called = "co_changes"
    /\ \E k, m \in DOMAIN result.rows :
           /\ result.rows[m].primary = result.rows[k].secondary
           /\ result.rows[m].secondary = result.rows[k].primary
           /\ result.rows[m].coupling # result.rows[k].coupling

\* C9: in every row of the co_changes output 1 <= cochanges <= changes and
\* 0 < coupling <= 1.
C9_CouplingRange ==
    called = "co_changes" =>
        \A k \in DOMAIN result.rows :
           LET r == result.rows[k]
           IN /\ 1 <= r[CoOn \o "_cochanges"]
              /\ r[CoOn \o "_cochanges"] <= r[CoOn \o "_changes"]
              /\ r.coupling.den > 0
              /\ 0 < r.coupling.num
              /\ r.coupling.num <= r.coupling.den

C9_Witness ==
    /\ called = "co_changes"
    /\ \E k \in DOMAIN result.rows : result.rows[k].coupling = Float(1)
    /\ \E k \in DOMAIN result.rows :
           result.rows[k].coupling.num < result.rows[k].coupling.den

(***************************************************************************)
(* guess_components                                                        *)
(*                                                                         *)
(* A path is [sep, segs]: the separator it is written with and its         *)
(* segments, the file name last.  TfidfVectorizer and MiniBatchKMeans are  *)
(* sklearn's: what they fitted is an input of the model, the record        *)
(* [stop_words, n_clusters, centers, labels] with one weight per feature   *)
(* in each center, in tenths, and one label per path.                      *)
(***************************************************************************)
MaxPaths == 2

\* the threshold 0.4 that guess_components passes to __cluster_name, in
\* tenths.
Threshold == 4

Weights == {4, 5, 6}

ClusterCounts == {1, 2}

StopWordChoices == {{}, {"test"}}

SamplePaths ==
    {[sep |-> "\\", segs |-> <<".", "src", "parsers", "git.clj">>],
     [sep |-> "\\", segs |-> <<".", "test", "parsers", "git_test.clj">>],
     [sep |-> "\\", segs |-> <<".", "project.clj">>]}

\* p.replace('\\', '/')
Replace(p) == [sep |-> "/", segs |-> p.segs]

\* os.path.dirname: what stands before the last '/', nothing when the path
\* has none.
Dirname(p) ==
    IF p.sep = "/"
    THEN [sep |-> "/", segs |-> SubSeq(p.segs, 1, Len(p.segs) - 1)]
    ELSE [sep |-> p.sep, segs |-> <<>>]

\* the tokens TfidfVectorizer finds in a directory: its words of two
\* characters or more that are no stop word.
Tokens(dir, stop_words) ==
    {dir.segs[i] : i \in {j \in DOMAIN dir.segs : Len(dir.segs[j]) >= 2}}
        \ stop_words

\* the alphabetical order of the tokens.
FeatureOrder == <<"parsers", "src", "test">>

FeatureRank(f) == CHOOSE i \in DOMAIN FeatureOrder : FeatureOrder[i] = f

\* vectorizer.get_feature_names(): the vocabulary, in alphabetical order.
FeatureNames(dirs, stop_words) ==
    SelectSeq(FeatureOrder,
              LAMBDA f : \E i \in DOMAIN dirs : f \in Tokens(dirs[i], stop_words))

\* '.'.join(names)
RECURSIVE Join(_)
Join(names) ==
    IF names = <<>> THEN ""
    ELSE IF Len(names) = 1 THEN names[1]
    ELSE names[1] \o "." \o Join(Tail(names))

\* an order by weight descending that breaks ties by feature name ascending.
BeforeNameAscending(w1, f1, w2, f2) ==
    \/ w1 > w2
    \/ w1 = w2 /\ FeatureRank(f1) < FeatureRank(f2)

\* sort_values(by=['weight', 'feature'], ascending=False): whether the row
\* (w1, f1) comes before the row (w2, f2).
Before(w1, f1, w2, f2) ==
    \/ w1 > w2
    \/ w1 = w2 /\ FeatureRank(f1) > FeatureRank(f2)

cluster_name(center, features, threshold) ==
    LET place(i) ==
            1 + Cardinality({j \in DOMAIN center :
                               Before(center[j], features[j],
                                      center[i], features[i])})
        df == [k \in DOMAIN center |->
                 CHOOSE i \in DOMAIN center : place(i) = k]
        kept == SelectSeq(df, LAMBDA i : center[i] > threshold)
    IN IF \A i \in DOMAIN center : center[i] <= threshold THEN ""
       ELSE Join([k \in DOMAIN kept |-> features[kept[k]]])

\* the order of the component names as strings: '.' sorts before every
\* letter.
ComponentOrder ==
    <<"", "parsers", "parsers.src", "parsers.src.test", "parsers.test",
      "parsers.test.src", "src", "src.parsers", "src.parsers.test",
      "src.test", "src.test.parsers", "test", "test.parsers",
      "test.parsers.src", "test.src", "test.src.parsers">>

ComponentRank(c) == CHOOSE i \in DOMAIN ComponentOrder : ComponentOrder[i] = c

\* rv.sort_values(by='component', inplace=True): ascending, rows of equal
\* component in the order they had.
SortByComponent(rows) ==
    LET before(i, j) ==
            \/ ComponentRank(rows[i].component) < ComponentRank(rows[j].component)
            \/ /\ rows[i].component = rows[j].component
               /\ i < j
        place(i) == 1 + Cardinality({j \in DOMAIN rows : before(j, i)})
    IN [k \in DOMAIN rows |-> rows[CHOOSE i \in DOMAIN rows : place(i) = k]]

\* fit_transform raises ValueError on an empty vocabulary.
guess_components(ps, stop_words, n_clusters, fit) ==
    LET data == ps
        dirs == [i \in DOMAIN data |-> Dirname(Replace(data[i]))]
        features == FeatureNames(dirs, stop_words)
    IN IF features = <<>> THEN ValueError
       ELSE
         LET cluster_names ==
                 [c \in 1..n_clusters |->
                    cluster_name(fit.centers[c], features, Threshold)]
             components ==
                 [i \in DOMAIN data |-> cluster_names[fit.labels[i]]]
             rv == [i \in DOMAIN data |->
                      [path |-> data[i], component |-> components[i]]]
         IN Frame(<<"path", "component">>, SortByComponent(rv))

\* data and dirs are the lists the comprehensions build, df the frame
\* __cluster_name builds and rv the frame guess_components builds.
ComponentsBindings == [data |-> "new", dirs |-> "new", df |-> "new", rv |-> "new"]

ComponentsStatements ==
    <<[on |-> "df", op |-> "sort_values"], [on |-> "rv", op |-> "sort_values"]>>

\* the paths after the statements in place of one call: sort_values(by=...,
\* inplace=True) is a method of a frame that has the columns named; on a
\* list of paths it raises, and the list is as it was.
ComponentsAfter(argument, ps) == ps

\* what sklearn can have fitted on the paths: a weight for each feature in
\* each center, a cluster for each path.
Clusterings(ps) ==
    UNION {
      LET features ==
              FeatureNames([i \in DOMAIN ps |-> Dirname(Replace(ps[i]))], sw)
      IN IF features = <<>>
         THEN {[stop_words |-> sw, n_clusters |-> n, centers |-> <<>>,
                labels |-> <<>>] : n \in ClusterCounts}
         ELSE UNION {
                {[stop_words |-> sw, n_clusters |-> n, centers |-> cs,
                  labels |-> ls] :
                    cs \in [1..n -> [DOMAIN features -> Weights]],
                    ls \in [DOMAIN ps -> 1..n]} :
                  n \in {m \in ClusterCounts : m <= Len(ps)}} :
        sw \in StopWordChoices}

InitComponents ==
    /\ log = LogTable(<<>>)
    /\ loc = EmptyLoc
    /\ paths \in RowLists(SamplePaths, MaxPaths)
    /\ clustering \in Clusterings(paths)
    /\ now = 0
    /\ called = "none"
    /\ args = [stop_words |-> {}, n_clusters |-> 0]
    /\ result = NoResult

GuessComponents ==
    /\ called' = "guess_components"
    /\ args' = [stop_words |-> clustering.stop_words,
                n_clusters |-> clustering.n_clusters]
    /\ result' = guess_components(paths, clustering.stop_words,
                                  clustering.n_clusters, clustering)
    /\ paths' = ComponentsAfter("paths", paths)
    /\ UNCHANGED <<log, loc, clustering, now>>

NextComponents == GuessComponents

SpecComponents == InitComponents /\ [][NextComponents]_vars

\* the feature names of the last call of guess_components.
ComponentFeatures ==
    FeatureNames([i \in DOMAIN paths |-> Dirname(Replace(paths[i]))],
                 args.stop_words)

\* the name guess_components derives for cluster c.
ComponentName(c) ==
    cluster_name(clustering.centers[c], ComponentFeatures, Threshold)

\* the features of cluster c that weigh more than 0.4.
Heavy(c) ==
    {i \in DOMAIN ComponentFeatures : clustering.centers[c][i] > Threshold}

\* C12: in guess_components the name of every cluster center is the '.'-join
\* of exactly the features whose weight is strictly greater than 0.4, by
\* weight descending and, at equal weight, by feature name descending, and is
\* the empty string when no weight exceeds 0.4; every input path appears
\* exactly once in the output, unmodified, with the name of the cluster it
\* was assigned to; the output rows are sorted by component.
C12_ClusterNamesAndRows ==
    (called = "guess_components" /\ result.ok) =>
        /\ \A c \in 1..args.n_clusters :
              /\ Heavy(c) = {} => ComponentName(c) = ""
              /\ \E s \in [1..Cardinality(Heavy(c)) -> Heavy(c)] :
                    /\ \A k, m \in DOMAIN s : k # m => s[k] # s[m]
                    /\ \A k, m \in DOMAIN s :
                          k < m =>
                            LET wk == clustering.centers[c][s[k]]
                                wm == clustering.centers[c][s[m]]
                            IN \/ wk > wm
                               \/ /\ wk = wm
                                  /\ FeatureRank(ComponentFeatures[s[k]]) >
                                         FeatureRank(ComponentFeatures[s[m]])
                    /\ ComponentName(c) =
                           Join([k \in DOMAIN s |-> ComponentFeatures[s[k]]])
        /\ Len(result.rows) = Len(paths)
        /\ \E at \in [DOMAIN paths -> DOMAIN result.rows] :
              /\ \A i, j \in DOMAIN paths : i # j => at[i] # at[j]
              /\ \A i \in DOMAIN paths :
                    /\ result.rows[at[i]].path = paths[i]
                    /\ result.rows[at[i]].component =
                           ComponentName(clustering.labels[i])
        /\ \A k, m \in DOMAIN result.rows :
              k < m => ComponentRank(result.rows[k].component) <=
                           ComponentRank(result.rows[m].component)

\* two clusters: one named by two features of equal weight above 0.4 next to
\* a feature at 0.4, one without a name; the sort moves the first path.
C12_Witness ==
    /\ called = "guess_components"
    /\ result.ok
    /\ Len(result.rows) = 2
    /\ result.rows[1].component = ""
    /\ result.rows[2].component = "src.parsers"
    /\ result.rows[1].path # paths[1]
    /\ result.rows[1].path.sep = "\\"
    /\ \E c \in 1..args.n_clusters :
          /\ Cardinality(Heavy(c)) = 2
          /\ \E i \in DOMAIN ComponentFeatures :
                clustering.centers[c][i] = Threshold
          /\ \A i, j \in Heavy(c) :
                clustering.centers[c][i] = clustering.centers[c][j]

\* a cluster named by weight against the order of the names.
C12_WitnessByWeight ==
    /\ called = "guess_components"
    /\ result.ok
    /\ \E k \in DOMAIN result.rows : result.rows[k].component = "parsers.test.src"

(***************************************************************************)
(* The five reports, called in any order on the same inputs.               *)
(***************************************************************************)
MaxCallRows == 2

InitCalls ==
    /\ \/ /\ \E day \in DayMaps :
                log \in {LogTableWithDay(rows) :
                           rows \in RowLists(RowsWithDay(day), MaxCallRows)}
          /\ loc \in {t \in LocTables : Len(t.rows) <= 1}
          /\ paths = <<>>
          /\ clustering = NoClustering
       \/ /\ log = LogTableWithDay(<<>>)
          /\ loc = EmptyLoc
          /\ paths \in RowLists(SamplePaths, MaxPaths)
          /\ clustering \in {c \in Clusterings(paths) : c.n_clusters = 1}
    /\ now = 0
    /\ called = "none"
    /\ args = [min_changes |-> 0]
    /\ result = NoResult

NextCalls ==
    \/ NextMass
    \/ NextAges
    \/ NextHotSpots
    \/ NextCoChanges
    \/ NextComponents

SpecCalls == InitCalls /\ [][NextCalls]_vars

\* C11 as stated: no call of get_mass_changesets, ages, hot_spots, co_changes
\* or guess_components changes the log, the size table or the path list, and
\* a call repeated with the same arguments (for guess_components with the
\* same fit) returns the same result.
C11_RepeatedCallSameResult ==
    [][/\ log' = log
       /\ loc' = loc
       /\ paths' = paths
       /\ (/\ called' = called
           /\ args' = args
           /\ clustering' = clustering) => result' = result]_vars

\* C11: no call of get_mass_changesets, ages, hot_spots, co_changes or
\* guess_components changes the log, the size table or the path list, so a
\* call repeated with the same arguments (for ages at the same reading of the
\* clock, for guess_components with the same fit) returns the same result.
C11_InputsNotModified ==
    [][/\ log' = log
       /\ loc' = loc
       /\ paths' = paths
       /\ (/\ called' = called
           /\ args' = args
           /\ now' = now
           /\ clustering' = clustering) => result' = result]_vars

\* ages has returned two rows or more from a log that still has no age
\* column, next to a size table with a row.
C11_Witness ==
    /\ called = "ages"
    /\ result.ok
    /\ Cardinality(result.rows) >= 2
    /\ loc.rows # <<>>
    /\ "age" \notin Range(log.columns)

\* C2: get_mass_changesets and ages succeed on a log whose revision and path
\* are index levels, and return the rows they return on the same log with
\* revision and path as columns.
C2_IndexedLogSameRows ==
    log.index # <<>> =>
        /\ called = "get_mass_changesets" =>
               /\ result.ok
               /\ result.rows =
                      get_mass_changesets(ResetIndex(log), args.min_changes).rows
        /\ called = "ages" =>
               /\ result.ok
               /\ result.rows = ages(ResetIndex(log), args.keys, now).rows

====
